---- MODULE Spec2Model ----
(***************************************************************************)
(* datalad/metadata/metadata.py: the metadata specification normalizer     *)
(* (_parse_argspec, _get_key), the inline tag merge of Metadata.__call__   *)
(* and the per-dataset set/query loop of Metadata.__call__.                *)
(*                                                                         *)
(* Python values are records tagged by their type:                         *)
(*   None          [t |-> "none"]                                          *)
(*   str           [t |-> "str",   s |-> <<"t","a","g">>]  (1-char strings)*)
(*   int           [t |-> "int",   n |-> 0]                                *)
(*   list          [t |-> "list",  e |-> <<v1, ...>>]                      *)
(*   tuple         [t |-> "tuple", e |-> <<v1, ...>>]                      *)
(*   dict          [t |-> "dict",  items |-> << <<k1, v1>>, ... >>]        *)
(*                 (items in iteration order, keys distinct)               *)
(* A raised exception is the name of its class, "none" when nothing raised *)
(***************************************************************************)
EXTENDS Integers, Sequences, FiniteSets, TLC

\* ------------------------------------------------------------------ bounds
MaxKeyLen == 3
MaxItems == 2
MaxPaths == 2
MaxResp == 2

\* ------------------------------------------------------- python values
PyNone == [t |-> "none"]
PyStr(s) == [t |-> "str", s |-> s]
PyInt(n) == [t |-> "int", n |-> n]
PyList(e) == [t |-> "list", e |-> e]
PyTuple(e) == [t |-> "tuple", e |-> e]
PyDict(items) == [t |-> "dict", items |-> items]

\* bool(v): None, '', 0, [], (), {} are falsy, everything else is truthy
Truthy(v) ==
  CASE v.t = "none" -> FALSE
    [] v.t = "str" -> v.s # <<>>
    [] v.t = "int" -> v.n # 0
    [] v.t = "list" -> v.e # <<>>
    [] v.t = "tuple" -> v.e # <<>>
    [] v.t = "dict" -> v.items # <<>>
    [] OTHER -> TRUE

\* ------------------------------------------------------- characters
Uppers == <<"A","B","C","D","E","F","G","H","I","J","K","L","M",
            "N","O","P","Q","R","S","T","U","V","W","X","Y","Z">>
Lowers == <<"a","b","c","d","e","f","g","h","i","j","k","l","m",
            "n","o","p","q","r","s","t","u","v","w","x","y","z">>
Digits == {"0","1","2","3","4","5","6","7","8","9"}
LowerSet == {Lowers[i] : i \in 1..26}

UpperSet == {Uppers[i] : i \in 1..26}
ToLower == [u \in UpperSet |-> Lowers[CHOOSE i \in 1..26 : Uppers[i] = u]]

\* str.lower() on one character
LowerChar(c) == IF c \in UpperSet THEN ToLower[c] ELSE c

\* k.lower()
Lower(s) == [i \in 1..Len(s) |-> LowerChar(s[i])]

\* the character class [0-9a-z._-] of valid_key
KeyClass == Digits \cup LowerSet \cup {".", "_", "-"}

AllIn(s, cls) == \A i \in 1..Len(s) : s[i] \in cls

\* valid_key.match(k) for valid_key = re.compile(r'^[0-9a-z._-]+$'):
\* one or more class characters, then '$', which matches at the end of the
\* string and also just before a newline that is the last character
valid_key_match(k) ==
  \/ Len(k) >= 1 /\ AllIn(k, KeyClass)
  \/ /\ Len(k) >= 2
     /\ k[Len(k)] = "\n"
     /\ AllIn(SubSeq(k, 1, Len(k) - 1), KeyClass)

\* _get_key(k): lower-case, then validate
_get_key(k) ==
  LET low == Lower(k)
  IN IF valid_key_match(low)
     THEN [exc |-> "none", key |-> low]
     ELSE [exc |-> "ValueError", key |-> low]

\* ------------------------------------------------------- _parse_argspec
\* a metadata mapping is a function from keys (character sequences) to values
EmptyMap == << >>

\* mapping[k] = v
Put(m, k, v) == [x \in (DOMAIN m) \cup {k} |-> IF x = k THEN v ELSE m[x]]

NoResult(e) == [exc |-> e, tags |-> << >>, mapping |-> EmptyMap]

\* the loop of _parse_argspec over the remaining items; the first exception
\* ends it
RECURSIVE ParseItems(_, _, _, _)
ParseItems(items, asdict, tags, mapping) ==
  IF items = << >>
  THEN [exc |-> "none", tags |-> tags, mapping |-> mapping]
  ELSE
    LET k == Head(items)
        rest == Tail(items)
    IN IF asdict
       THEN \* k, v = k
         IF Truthy(k[2])
         THEN LET g == _get_key(k[1].s)
              IN IF g.exc # "none"
                 THEN NoResult(g.exc)
                 ELSE ParseItems(rest, asdict, tags, Put(mapping, g.key, k[2]))
         ELSE ParseItems(rest, asdict, Append(tags, k[1]), mapping)
       ELSE IF k.t = "list"
       THEN \* isinstance(k, list)
         IF Len(k.e) = 1
         THEN ParseItems(rest, asdict, Append(tags, k.e[1]), mapping)
         ELSE IF Len(k.e) > 1
         THEN LET g == _get_key(k.e[1].s)
              IN IF g.exc # "none"
                 THEN NoResult(g.exc)
                 ELSE ParseItems(rest, asdict, tags,
                                 Put(mapping, g.key, PyList(Tail(k.e))))
         ELSE NoResult("ValueError")
       ELSE ParseItems(rest, asdict, Append(tags, k), mapping)

_parse_argspec(args) ==
  IF ~Truthy(args)
  THEN [exc |-> "none", tags |-> << >>, mapping |-> EmptyMap]
  ELSE IF args.t \notin {"dict", "list", "tuple"}
  THEN NoResult("ValueError")
  ELSE ParseItems(IF args.t = "dict" THEN args.items ELSE args.e,
                  args.t = "dict", << >>, EmptyMap)

\* ------------------------------------------------------- input universes
S_tag == <<"t","a","g">>
S_Tag == <<"T","a","g">>
S_k == <<"k">>
S_bad == <<"a"," ">>
S_nl == <<"k","\n">>
S_x == <<"x">>
S_y == <<"y">>

ArgKeys == {S_tag, S_Tag, S_k, S_bad, S_nl}
ArgVals == {S_x, S_y}

SeqsUpTo(S, n) == UNION {[1..m -> S] : m \in 0..n}

\* the entries of a list-form argument: bare strings, lists and tuples
ListEntries ==
  {PyStr(S_x), PyStr(S_tag)}
  \cup {PyList(<< >>), PyTuple(<< >>)}
  \cup {PyList(<<PyStr(v)>>) : v \in ArgVals}
  \cup {PyTuple(<<PyStr(S_x)>>)}
  \cup {PyList(<<PyStr(k), PyStr(v)>>) : k \in ArgKeys, v \in ArgVals}
  \cup {PyList(<<PyStr(k), PyStr(S_x), PyStr(S_y)>>) : k \in {S_tag, S_k}}
  \cup {PyTuple(<<PyStr(k), PyStr(S_x)>>) : k \in {S_tag, S_k}}

\* the values of a dict-form argument: falsy ones, scalars and sequences
DictVals ==
  {PyNone, PyStr(<< >>), PyInt(0), PyList(<< >>)}
  \cup {PyStr(S_x), PyList(<<PyStr(S_x)>>), PyList(<<PyStr(S_x), PyStr(S_y)>>),
        PyTuple(<<PyStr(S_x)>>)}

DictItems == {<<PyStr(k), v>> : k \in ArgKeys, v \in DictVals}

DistinctKeys(items) ==
  \A i, j \in 1..Len(items) : i # j => items[i][1] # items[j][1]

\* the raw arguments of at most n entries
RawArgs(n) ==
  {PyNone, PyStr(S_x), PyInt(1)}
  \cup {PyList(e) : e \in SeqsUpTo(ListEntries, n)}
  \cup {PyTuple(e) : e \in SeqsUpTo(ListEntries, n) \ {<< >>}}
  \cup {PyDict(i) : i \in {s \in SeqsUpTo(DictItems, n) : DistinctKeys(s)}}

VARIABLES key_in, key_out, args_in, parsed,
          raw, pc, idx, loc, exc, annotated, ap, to_process, content_by_ds,
          todo, cur, mod_paths, nresp, is_annex, py2, calls, outcomes
kvars == <<key_in, key_out>>
pvars == <<args_in, parsed>>
envvars == <<raw, is_annex, py2>>
cvars == <<raw, pc, idx, loc, exc, annotated, ap, to_process, content_by_ds,
           todo, cur, mod_paths, nresp, is_annex, py2, calls, outcomes>>
vars == <<key_in, key_out, args_in, parsed, cvars>>

Classes == {"remove", "reset", "add", "init"}
NoArgs == [remove |-> PyNone, reset |-> PyNone, add |-> PyNone, init |-> PyNone]
NoLocals == [untag |-> << >>, remove |-> EmptyMap, purge |-> << >>,
             reset |-> EmptyMap, tag_add |-> << >>, add |-> EmptyMap,
             tag_init |-> << >>, init |-> EmptyMap]

\* no invocation of Metadata.__call__ is under way
NoCall ==
  /\ raw = NoArgs
  /\ pc = "idle"
  /\ idx = 0
  /\ loc = NoLocals
  /\ exc = "none"
  /\ annotated = << >>
  /\ ap = << >>
  /\ to_process = << >>
  /\ content_by_ds = EmptyMap
  /\ todo = {}
  /\ cur = << >>
  /\ mod_paths = << >>
  /\ nresp = 0
  /\ is_annex = EmptyMap
  /\ py2 = FALSE
  /\ calls = << >>
  /\ outcomes = << >>

Pending == [exc |-> "pending", key |-> << >>]
Unparsed == [exc |-> "pending", tags |-> << >>, mapping |-> EmptyMap]

\* ------------------------------------------------------- key validation
Alphabet == {"a", "T", "1", ".", "_", "-", " ", "\n"}

InitKey ==
  /\ key_in \in SeqsUpTo(Alphabet, MaxKeyLen)
  /\ key_out = Pending
  /\ args_in = PyNone
  /\ parsed = Unparsed
  /\ NoCall

GetKey ==
  /\ key_out.exc = "pending"
  /\ key_out' = _get_key(key_in)
  /\ UNCHANGED <<key_in, pvars, cvars>>

NextKey == GetKey
SpecKey == InitKey /\ [][NextKey]_vars

\* C9: validate_key(raw) succeeds if and only if the lower-cased raw is
\* non-empty and all of its characters are digits, lowercase letters, '.',
\* '_' or '-' (a key ending in a newline is rejected); on success it returns
\* the lower-cased raw, whose characters are all of that set, and validating
\* the result again returns the same key.
C9_KeyValidation ==
  key_out.exc # "pending" =>
    LET low == Lower(key_in)
        accepted == key_out.exc = "none"
    IN /\ accepted <=> (Len(low) >= 1 /\ AllIn(low, KeyClass))
       /\ accepted => /\ key_out.key = low
                      /\ AllIn(key_out.key, KeyClass)
                      /\ _get_key(key_out.key) = key_out

\* ------------------------------------------------------- normalizer
InitParse ==
  /\ args_in \in RawArgs(MaxItems)
  /\ parsed = Unparsed
  /\ key_in = << >>
  /\ key_out = Pending
  /\ NoCall

ParseArgspec ==
  /\ parsed.exc = "pending"
  /\ parsed' = _parse_argspec(args_in)
  /\ UNCHANGED <<args_in, kvars, cvars>>

NextParse == ParseArgspec
SpecParse == InitParse /\ [][NextParse]_vars

\* normalize as the specification states it: every sequence element (a list
\* or a tuple) of a sequence-form argument is an entry, anything else a tag
IsSequence(v) == v.t \in {"list", "tuple"}

RECURSIVE StatedItems(_, _, _, _)
StatedItems(items, asdict, tags, mapping) ==
  IF items = << >>
  THEN [exc |-> "none", tags |-> tags, mapping |-> mapping]
  ELSE
    LET e == Head(items)
        rest == Tail(items)
    IN IF asdict
       THEN IF Truthy(e[2])
            THEN IF _get_key(e[1].s).exc # "none"
                 THEN NoResult("ValueError")
                 ELSE StatedItems(rest, asdict, tags,
                                  Put(mapping, _get_key(e[1].s).key, e[2]))
            ELSE StatedItems(rest, asdict, Append(tags, e[1]), mapping)
       ELSE IF ~IsSequence(e)
       THEN StatedItems(rest, asdict, Append(tags, e), mapping)
       ELSE IF Len(e.e) = 0
       THEN NoResult("ValueError")
       ELSE IF Len(e.e) = 1
       THEN StatedItems(rest, asdict, Append(tags, e.e[1]), mapping)
       ELSE IF _get_key(e.e[1].s).exc # "none"
       THEN NoResult("ValueError")
       ELSE StatedItems(rest, asdict, tags,
                        Put(mapping, _get_key(e.e[1].s).key,
                            [t |-> e.t, e |-> Tail(e.e)]))

StatedNormalize(a) ==
  IF ~Truthy(a)
  THEN [exc |-> "none", tags |-> << >>, mapping |-> EmptyMap]
  ELSE IF a.t \notin {"dict", "list", "tuple"}
  THEN NoResult("ValueError")
  ELSE StatedItems(IF a.t = "dict" THEN a.items ELSE a.e,
                   a.t = "dict", << >>, EmptyMap)

\* C8: for every raw argument normalize returns ([], {}) when it is None or
\* empty; for a mapping, mapping[validate_key(k)] = v for truthy v and the
\* key k appended to tags for falsy v; for a sequence, in input order, the
\* sole element of each length-1 sequence element and each bare scalar
\* appended to tags, mapping[validate_key(e[0])] = e[1:] for each sequence
\* element of length > 1, an error for a length-0 sequence element.
C8_NormalizerResult ==
  parsed.exc # "pending" => parsed = StatedNormalize(args_in)

\* C8 restricted to arguments whose entries are strings and lists only: the
\* statement holds for them
NoTupleEntry(a) ==
  a.t \in {"list", "tuple"} => \A i \in 1..Len(a.e) : a.e[i].t # "tuple"

C8_ListEntriesOnly ==
  (parsed.exc # "pending" /\ NoTupleEntry(args_in)) =>
    parsed = StatedNormalize(args_in)

\* ------------------------------------------------------- Metadata.__call__
\* the arguments normalized before anything else, in this order
\* (untag, remove = ..., purge, reset = ..., tag_add, add = ..., tag_init, init = ...)
ParseOrderLazy == <<"remove", "reset", "add">>
ParseOrder == <<"remove", "reset", "add", "init">>

\* the local that receives the bare entries of each argument
TagName(c) ==
  CASE c = "remove" -> "untag"
    [] c = "reset" -> "purge"
    [] c = "add" -> "tag_add"
    [] c = "init" -> "tag_init"

\* the classes whose bare entries are merged into the mapping's 'tag', in
\* the order of the three inline blocks
MergeClassesFour == <<"remove", "reset", "add", "init">>
MergeClasses == <<"remove", "add", "init">>

\* the tag list merged into the mapping of class c
MergeSourceShared(c) == "untag"
MergeSource(c) == TagName(c)

\* mapping.get('tag', []) + tags; if non-empty: mapping['tag'] = the sum.
\* list + list concatenates, any other left operand raises TypeError
MergeTag(tags, mapping) ==
  LET existing == IF S_tag \in DOMAIN mapping THEN mapping[S_tag]
                  ELSE PyList(<< >>)
  IN IF existing.t # "list"
     THEN [exc |-> "TypeError", mapping |-> mapping]
     ELSE LET all == existing.e \o tags
          IN [exc |-> "none",
              mapping |-> IF all # << >> THEN Put(mapping, S_tag, PyList(all))
                          ELSE mapping]

RECURSIVE MergeAll(_, _)
MergeAll(classes, l) ==
  IF classes = << >>
  THEN [exc |-> "none", loc |-> l]
  ELSE LET c == Head(classes)
           m == MergeTag(l[MergeSource(c)], l[c])
       IN IF m.exc # "none"
          THEN [exc |-> m.exc, loc |-> l]
          ELSE MergeAll(Tail(classes), [l EXCEPT ![c] = m.mapping])

\* one of the _parse_argspec calls that open __call__
Parse ==
  /\ pc = "parse"
  /\ LET c == ParseOrder[idx]
         r == _parse_argspec(raw[c])
     IN IF r.exc # "none"
        THEN /\ pc' = "raised"
             /\ exc' = r.exc
             /\ UNCHANGED <<idx, loc>>
        ELSE /\ loc' = [loc EXCEPT ![TagName(c)] = r.tags, ![c] = r.mapping]
             /\ exc' = exc
             /\ IF idx < Len(ParseOrder)
                THEN idx' = idx + 1 /\ pc' = pc
                ELSE idx' = idx /\ pc' = "merge"
  /\ UNCHANGED <<kvars, pvars, envvars, annotated, ap, to_process,
                 content_by_ds, todo, cur, mod_paths, nresp, calls, outcomes>>

\* merge all potential sources of tag specifications
Merge ==
  /\ pc = "merge"
  /\ LET m == MergeAll(MergeClasses, loc)
     IN IF m.exc # "none"
        THEN pc' = "raised" /\ exc' = m.exc /\ loc' = loc
        ELSE pc' = "annotate" /\ exc' = exc /\ loc' = m.loc
  /\ UNCHANGED <<kvars, pvars, envvars, idx, annotated, ap, to_process,
                 content_by_ds, todo, cur, mod_paths, nresp, calls, outcomes>>

\* ------------------------------------------------------- paths and stores
\* a path is a sequence of components, absolute when it starts with "/"
D1 == <<"/", "d1">>
D2 == <<"/", "d2">>
D3 == <<"/", "d3">>
Datasets == {D1, D2}
Files == {<<"f1">>, <<"f2">>}

\* the metadata record the store holds for a path
MetaOf(path) == [record_of |-> path]

\* os.path.join(a, b)
opj(a, b) == IF b # << >> /\ b[1] = "/" THEN b ELSE a \o b

AnnotatedPath(path, type, ds, raw_input, status, state) ==
  [path |-> path, type |-> type, ds |-> ds, raw_input |-> raw_input,
   status |-> status, state |-> state, process_content |-> FALSE]

\* what AnnotatePaths can report: files of two datasets, a dataset itself,
\* a subdataset entry of its parent, an absent subdataset, a path with an
\* error status
AnnotatedPaths ==
  {AnnotatedPath(D1 \o <<"f1">>, "file", D1, TRUE, "", ""),
   AnnotatedPath(D1 \o <<"f2">>, "file", D1, FALSE, "", ""),
   AnnotatedPath(D2 \o <<"f1">>, "file", D2, TRUE, "", ""),
   AnnotatedPath(D1, "dataset", D1, TRUE, "", "present"),
   AnnotatedPath(D2, "dataset", D1, FALSE, "", "present"),
   AnnotatedPath(D3, "dataset", D1, FALSE, "", "absent"),
   AnnotatedPath(<<"/", "nope">>, "file", D1, TRUE, "error", "")}

DistinctPaths(aps) ==
  \A i, j \in 1..Len(aps) : i # j => aps[i].path # aps[j].path

\* GitRepo.is_valid_repo(path)
is_valid_repo(path) == path \in Datasets

\* an outcome record
Result(status, path, ds, metadata) ==
  [status |-> status, path |-> path, ds |-> ds, metadata |-> metadata]

Last(q) == q[Len(q)]

\* one iteration of the loop over AnnotatePaths.__call__(...)
Annotate ==
  /\ pc = "annotate"
  /\ annotated # << >>
  /\ LET a == Head(annotated)
     IN /\ annotated' = Tail(annotated)
        /\ IF a.status # ""
           THEN \* this is done
                /\ outcomes' = Append(outcomes, Result(a.status, a.path, a.ds, "none"))
                /\ ap' = <<a>>
                /\ UNCHANGED to_process
           ELSE IF a.type = "dataset" /\ a.state = "absent"
           THEN /\ ap' = <<a>>
                /\ UNCHANGED <<to_process, outcomes>>
           ELSE LET b == IF a.type = "dataset" /\ is_valid_repo(a.path)
                         THEN [a EXCEPT !.process_content = TRUE]
                         ELSE a
                IN /\ ap' = <<b>>
                   /\ to_process' = Append(to_process, b)
                   /\ UNCHANGED outcomes
  /\ UNCHANGED <<kvars, pvars, envvars, pc, idx, loc, exc, content_by_ds,
                 todo, cur, mod_paths, nresp, calls>>

\* annotated2content_by_ds: the annotated paths of each dataset, in order
GroupByDs(aps) ==
  [d \in {aps[i].ds : i \in 1..Len(aps)} |->
     SelectSeq(aps, LAMBDA a : a.ds = d)]

Group ==
  /\ pc = "annotate"
  /\ annotated = << >>
  /\ content_by_ds' = GroupByDs(to_process)
  /\ todo' = {to_process[i].ds : i \in 1..Len(to_process)}
  /\ pc' = "datasets"
  /\ UNCHANGED <<kvars, pvars, envvars, idx, loc, exc, annotated, ap,
                 to_process, cur, mod_paths, nresp, calls, outcomes>>

\* content = [ap for ap in content_by_ds[ds_path]
\*            if ap.get('type', None) != 'dataset' or ap['path'] == ds_path]
Content(d) ==
  SelectSeq(content_by_ds[d], LAMBDA a : a.type # "dataset" \/ a.path = d)

\* the binding of the function's local `ap` once that comprehension has run:
\* an interpreter whose list comprehensions share the function's scope
\* (Python 2) leaves its last element in `ap`, otherwise `ap` is untouched
ApAfterContent(d) ==
  IF py2 THEN <<Last(content_by_ds[d])>> ELSE ap

\* [c for c in content if ap.get('raw_input', False)]: the condition reads
\* the function's `ap`, not the element c
Requested(d) ==
  IF ApAfterContent(d)[1].raw_input THEN Content(d) ELSE << >>

PathsOf(aps) == [i \in 1..Len(aps) |-> aps[i].path]

NeedsSetMappingsOnly(l) ==
  \/ DOMAIN l.reset # {}
  \/ DOMAIN l.add # {}
  \/ DOMAIN l.init # {}
  \/ DOMAIN l.remove # {}

\* if reset or purge or add or init or remove
NeedsSet(l) ==
  \/ DOMAIN l.reset # {}
  \/ l.purge # << >>
  \/ DOMAIN l.add # {}
  \/ DOMAIN l.init # {}
  \/ DOMAIN l.remove # {}

\* a dataset without an annex: report and continue
NonAnnexDataset ==
  /\ pc = "datasets"
  /\ \E d \in todo :
       /\ ~is_annex[d]
       /\ LET req == Requested(d)
          IN /\ outcomes' = outcomes \o
                  [i \in 1..Len(req) |-> Result("impossible", req[i].path, d, "none")]
             /\ ap' = IF req # << >> THEN <<Last(req)>> ELSE ApAfterContent(d)
       /\ todo' = todo \ {d}
  /\ UNCHANGED <<kvars, pvars, envvars, pc, idx, loc, exc, annotated,
                 to_process, content_by_ds, cur, mod_paths, nresp, calls>>

\* ds.repo.set_metadata(ds_paths, reset=..., add=..., init=..., remove=...,
\* purge=..., recursive=True) is called
SetMetadata ==
  /\ pc = "datasets"
  /\ \E d \in todo :
       /\ is_annex[d]
       /\ NeedsSet(loc)
       /\ calls' = Append(calls,
            [op |-> "set", ds |-> d, paths |-> PathsOf(Content(d)),
             reset |-> loc.reset, add |-> loc.add, init |-> loc.init,
             remove |-> loc.remove, purge |-> loc.purge, recursive |-> TRUE])
       /\ ap' = ApAfterContent(d)
       /\ cur' = d
       /\ todo' = todo \ {d}
  /\ mod_paths' = << >>
  /\ nresp' = 0
  /\ pc' = "set_loop"
  /\ UNCHANGED <<kvars, pvars, envvars, idx, loc, exc, annotated,
                 to_process, content_by_ds, outcomes>>

\* the per-path responses of set_metadata: dicts with 'file' and, possibly,
\* 'success'
Responses ==
  {[success |-> b, file |-> f] : b \in BOOLEAN, f \in Files}
  \cup {[file |-> f] : f \in Files}

\* mp.get(key, default)
DictGet(mp, key, default) == IF key \in DOMAIN mp THEN mp[key] ELSE default

\* mp[key]; the key "0" stands for the integer 0 of mp[0]
Subscript(mp, key) ==
  IF key \in DOMAIN mp THEN [exc |-> "none", val |-> mp[key]]
  ELSE [exc |-> "KeyError", val |-> << >>]

\* one iteration of the loop over the responses of set_metadata
SetResponse ==
  /\ pc = "set_loop"
  /\ nresp < MaxResp
  /\ \E mp \in Responses :
       /\ calls' = Append(calls, [op |-> "response", ds |-> cur, mp |-> mp])
       /\ IF DictGet(mp, "success", FALSE)
          THEN /\ mod_paths' = Append(mod_paths, mp.file)
               /\ UNCHANGED <<pc, exc, outcomes>>
          ELSE LET p == Subscript(mp, "0")
               IN IF p.exc # "none"
                  THEN /\ pc' = "raised"
                       /\ exc' = p.exc
                       /\ UNCHANGED <<mod_paths, outcomes>>
                  ELSE /\ outcomes' = Append(outcomes,
                            Result("error", opj(cur, p.val), cur, "none"))
                       /\ UNCHANGED <<pc, exc, mod_paths>>
  /\ nresp' = nresp + 1
  /\ UNCHANGED <<kvars, pvars, envvars, idx, loc, annotated, ap, to_process,
                 content_by_ds, todo, cur>>

QueryPathsRequested(ds_paths, modified) == ds_paths

\* ds_paths = mod_paths: query the actually modified paths only
QueryPaths(ds_paths, modified) == modified

\* ds.repo.get_metadata(paths): one (file, metadata) pair per path
get_metadata(paths) == [i \in 1..Len(paths) |-> <<paths[i], MetaOf(paths[i])>>]

\* the query loop: a get_metadata call and an 'ok' result per pair
Query(d, paths, log) ==
  LET res == get_metadata(paths)
  IN /\ calls' = log \o
          <<[op |-> "get", ds |-> d, paths |-> paths, result |-> res]>>
     /\ outcomes' = outcomes \o
          [i \in 1..Len(res) |-> Result("ok", opj(d, res[i][1]), d, res[i][2])]

\* set_metadata is exhausted: query what it modified
QueryModified ==
  /\ pc = "set_loop"
  /\ Query(cur, QueryPaths(PathsOf(Content(cur)), mod_paths),
           Append(calls, [op |-> "exhausted", ds |-> cur]))
  /\ pc' = "datasets"
  /\ cur' = << >>
  /\ UNCHANGED <<kvars, pvars, envvars, idx, loc, exc, annotated, ap,
                 to_process, content_by_ds, todo, mod_paths, nresp>>

\* nothing to set: query the requested paths
QueryOnly ==
  /\ pc = "datasets"
  /\ \E d \in todo :
       /\ is_annex[d]
       /\ ~NeedsSet(loc)
       /\ Query(d, PathsOf(Content(d)), calls)
       /\ ap' = ApAfterContent(d)
       /\ todo' = todo \ {d}
  /\ UNCHANGED <<kvars, pvars, envvars, pc, idx, loc, exc, annotated,
                 to_process, content_by_ds, cur, mod_paths, nresp>>

\* every dataset is done: the generator returns
Finish ==
  /\ pc = "datasets"
  /\ todo = {}
  /\ pc' = "done"
  /\ UNCHANGED <<kvars, pvars, envvars, idx, loc, exc, annotated, ap,
                 to_process, content_by_ds, todo, cur, mod_paths, nresp,
                 calls, outcomes>>

\* ------------------------------------------------------- invocations
L_x == PyList(<<PyList(<<PyStr(S_x)>>)>>)
L_tag_y == PyList(<<PyList(<<PyStr(S_tag), PyStr(S_x)>>), PyList(<<PyStr(S_y)>>)>>)
D_mixed == PyDict(<< <<PyStr(S_Tag), PyList(<<PyStr(S_x)>>)>>,
                     <<PyStr(S_y), PyStr(<< >>)>>,
                     <<PyStr(S_k), PyStr(S_x)>> >>)
D_scalar == PyDict(<< <<PyStr(S_tag), PyStr(S_x)>> >>)
L_empty == PyList(<<PyList(<< >>)>>)
D_badkey == PyDict(<< <<PyStr(S_bad), PyStr(S_x)>> >>)

CallArgs == {PyNone, L_x, L_tag_y, D_mixed, D_scalar, L_empty, D_badkey,
             PyStr(S_x)}

Args(rm, rs, ad, it) == [remove |-> rm, reset |-> rs, add |-> ad, init |-> it]

FewArgs == {NoArgs, Args(PyNone, L_x, PyNone, PyNone)}

Start ==
  /\ pc = "parse"
  /\ idx = 1
  /\ loc = NoLocals
  /\ exc = "none"
  /\ ap = << >>
  /\ to_process = << >>
  /\ content_by_ds = EmptyMap
  /\ todo = {}
  /\ cur = << >>
  /\ mod_paths = << >>
  /\ nresp = 0
  /\ calls = << >>
  /\ outcomes = << >>
  /\ key_in = << >>
  /\ key_out = Pending
  /\ args_in = PyNone
  /\ parsed = Unparsed

\* every combination of arguments on two files of two datasets, and a few
\* arguments on every discovery
Init ==
  /\ Start
  /\ \/ /\ raw \in [Classes -> CallArgs]
        /\ annotated = <<AnnotatedPath(D1 \o <<"f1">>, "file", D1, TRUE, "", ""),
                         AnnotatedPath(D2 \o <<"f1">>, "file", D2, TRUE, "", "")>>
        /\ is_annex = [d \in Datasets |-> d = D1]
        /\ py2 = FALSE
     \/ /\ raw \in FewArgs
        /\ annotated \in {q \in SeqsUpTo(AnnotatedPaths, MaxPaths) : DistinctPaths(q)}
        /\ is_annex \in [Datasets -> BOOLEAN]
        /\ py2 \in BOOLEAN

Next ==
  \/ Parse
  \/ Merge
  \/ Annotate
  \/ Group
  \/ NonAnnexDataset
  \/ SetMetadata
  \/ SetResponse
  \/ QueryModified
  \/ QueryOnly
  \/ Finish

Spec == Init /\ [][Next]_vars

\* ------------------------------------------------------- properties
Rejects(a) == _parse_argspec(a).exc # "none"
Normalized(c) == _parse_argspec(raw[c])
CallIdx(op) == {i \in 1..Len(calls) : calls[i].op = op}
SetIdx(d) == {i \in CallIdx("set") : calls[i].ds = d}
GetIdx(d) == {i \in CallIdx("get") : calls[i].ds = d}
Merged == pc \in {"annotate", "datasets", "set_loop", "done"} \/ calls # << >>

\* C1: when the normalizer rejects at least one of the four raw arguments,
\* the error is raised before any path discovery and before any store call:
\* no store call and no outcome record occurs in that invocation, whichever
\* argument is the invalid one.
C1_FailFast ==
  (\E c \in Classes : Rejects(raw[c])) =>
    /\ pc \in {"parse", "raised"}
    /\ exc \in {"none", "ValueError"}
    /\ calls = << >>
    /\ outcomes = << >>
    /\ ap = << >>
    /\ to_process = << >>

\* the last argument normalized is the rejected one, after three accepted,
\* non-empty ones
C1_Witness ==
  /\ pc = "raised"
  /\ exc = "ValueError"
  /\ Rejects(raw.init)
  /\ \A c \in {"remove", "reset", "add"} : ~Rejects(raw[c]) /\ raw[c] # PyNone

\* the values under 'tag' of a normalized mapping, as a sequence
Existing(mapping) ==
  IF S_tag \notin DOMAIN mapping THEN << >>
  ELSE IF IsSequence(mapping[S_tag]) THEN mapping[S_tag].e
  ELSE <<mapping[S_tag]>>

TagFolded(c, handed) ==
  LET n == Normalized(c)
      cat == Existing(n.mapping) \o n.tags
  IN /\ cat # << >> => S_tag \in DOMAIN handed /\ handed[S_tag] = PyList(cat)
     /\ (n.tags = << >> /\ S_tag \notin DOMAIN n.mapping) => S_tag \notin DOMAIN handed
     /\ DOMAIN handed \ {S_tag} = DOMAIN n.mapping \ {S_tag}
     /\ \A k \in DOMAIN n.mapping \ {S_tag} : handed[k] = n.mapping[k]

\* C2: for every accepted raw argument of the remove, add or init class the
\* merge completes without raising and the class's mapping has 'tag' equal
\* to the existing 'tag' values followed by the bare tags when that is
\* non-empty, no 'tag' key when there are neither, and every other key
\* unchanged.
C2_TagMergeRule ==
  (pc \notin {"parse", "merge"} /\ \A c \in Classes : ~Rejects(raw[c])) =>
    /\ exc # "TypeError"
    /\ \A c \in {"remove", "add", "init"} : TagFolded(c, loc[c])

\* C3 (as stated): the bare tags of each of the four raw arguments, reset
\* included, are folded into that class's mapping handed to store.set.
C3_ResetFolded ==
  \A i \in CallIdx("set") : \A c \in Classes : TagFolded(c, calls[i][c])

\* C3 (amended): the bare tags of the remove, add and init arguments are
\* folded into those classes' mappings; the reset mapping is handed to
\* store.set exactly as normalized and the bare entries of the reset
\* argument are handed over as the separate purge list.
C3_ResetPurged ==
  \A i \in CallIdx("set") :
    /\ \A c \in {"remove", "add", "init"} : TagFolded(c, calls[i][c])
    /\ calls[i].reset = Normalized("reset").mapping
    /\ calls[i].purge = Normalized("reset").tags

C3_Witness ==
  \E i \in CallIdx("set") :
    /\ Normalized("reset").tags # << >>
    /\ Normalized("add").tags # << >>
    /\ S_tag \in DOMAIN Normalized("remove").mapping

AllMappingsEmpty(r) ==
  DOMAIN r.remove = {} /\ DOMAIN r.reset = {} /\ DOMAIN r.add = {} /\ DOMAIN r.init = {}

\* C4 (as stated): store.set is not invoked when all four mappings are empty.
C4_NoSetWhenMappingsEmpty ==
  \A i \in CallIdx("set") : ~AllMappingsEmpty(calls[i])

\* C4 (amended): for every processed collection with an annex repository,
\* store.set is not invoked when all four mappings and the purge list are
\* empty, and store.get is then called on all of the collection's requested
\* paths; store.set is invoked, exactly once, when a mapping or the purge
\* list is non-empty.
C4_QueryOnlyPath ==
  LET nothing == AllMappingsEmpty(loc) /\ loc.purge = << >>
  IN /\ \A d \in Datasets :
          /\ Cardinality(SetIdx(d)) <= 1
          /\ Cardinality(GetIdx(d)) <= 1
          /\ SetIdx(d) # {} => Merged /\ ~nothing
          /\ \A g \in GetIdx(d) :
               IF nothing
               THEN SetIdx(d) = {} /\ calls[g].paths = PathsOf(Content(d))
               ELSE \E j \in SetIdx(d) : j < g
     /\ pc = "done" =>
          \A d \in DOMAIN content_by_ds :
            is_annex[d] =>
              /\ Cardinality(GetIdx(d)) = 1
              /\ Cardinality(SetIdx(d)) = IF nothing THEN 0 ELSE 1

\* the query-only path: nothing to set, and a collection with two requested
\* paths is queried for both without any store.set call
C4_Witness ==
  /\ pc = "done"
  /\ AllMappingsEmpty(loc) /\ loc.purge = << >>
  /\ calls # << >>
  /\ \E g \in CallIdx("get") : Len(calls[g].paths) = 2

\* the files of the successful responses among calls[lo..hi], in order
RECURSIVE SuccessFiles(_, _)
SuccessFiles(lo, hi) ==
  IF lo > hi THEN << >>
  ELSE IF calls[lo].op = "response" /\ DictGet(calls[lo].mp, "success", FALSE)
  THEN <<calls[lo].mp.file>> \o SuccessFiles(lo + 1, hi)
  ELSE SuccessFiles(lo + 1, hi)

OkOutcomes(d) ==
  SelectSeq(outcomes, LAMBDA r : r.status = "ok" /\ r.ds = d)

\* C5: on a collection where store.set was invoked, store.get is called
\* only after the responses of store.set are exhausted, with exactly the
\* paths of the successful responses; every 'ok' outcome carries the
\* metadata that store.get call returned and none comes from a store.set
\* response.
C5_RequeryAfterSet ==
  \A d \in Datasets :
    /\ \A g \in GetIdx(d) : \A j \in SetIdx(d) :
         /\ j < g
         /\ calls[g - 1] = [op |-> "exhausted", ds |-> d]
         /\ \A k \in (j + 1)..(g - 2) :
              calls[k].op = "response" /\ calls[k].ds = d
         /\ calls[g].paths = SuccessFiles(j + 1, g - 2)
    /\ IF GetIdx(d) = {} THEN OkOutcomes(d) = << >>
       ELSE \A g \in GetIdx(d) :
              OkOutcomes(d) =
                [i \in 1..Len(calls[g].result) |->
                   Result("ok", opj(d, calls[g].result[i][1]), d,
                          calls[g].result[i][2])]

\* a set call on two requested paths answered by one success: one path is
\* queried and reported
C5_Witness ==
  \E d \in Datasets : \E g \in GetIdx(d) : \E j \in SetIdx(d) :
    /\ Len(calls[j].paths) = 2
    /\ Len(calls[g].paths) = 1
    /\ Len(OkOutcomes(d)) = 1

Failures(d) ==
  SelectSeq(calls, LAMBDA e : e.op = "response" /\ e.ds = d
                              /\ ~DictGet(e.mp, "success", FALSE))

ErrorOutcomes(d) ==
  SelectSeq(outcomes, LAMBDA r : r.status = "error" /\ r.ds = d
                                 /\ r.path # <<"/", "nope">>)

\* C6: a failing response of store.set does not make the invocation raise;
\* each failing entity gets one 'error' outcome with its path and the
\* remaining responses are still processed.
C6_StoreFailuresNonFatal ==
  /\ exc # "KeyError"
  /\ \A d \in Datasets :
       ErrorOutcomes(d) =
         [i \in 1..Len(Failures(d)) |->
            Result("error", opj(d, Failures(d)[i].mp.file), d, "none")]

ImpossibleOutcomes(d) ==
  SelectSeq(outcomes, LAMBDA r : r.status = "impossible" /\ r.ds = d)

\* C7: for a collection without an annex repository neither store.set nor
\* store.get is invoked, and an 'impossible' outcome is emitted for exactly
\* the entries of the collection that were explicitly requested.
C7_UnsupportedStoreKind ==
  \A d \in DOMAIN content_by_ds :
    (~is_annex[d] /\ d \notin todo) =>
      /\ SetIdx(d) = {} /\ GetIdx(d) = {}
      /\ LET req == SelectSeq(Content(d), LAMBDA a : a.raw_input)
         IN ImpossibleOutcomes(d) =
              [i \in 1..Len(req) |-> Result("impossible", req[i].path, d, "none")]

\* the strings that occur in a python value
RECURSIVE StrsOf(_)
StrsOf(v) ==
  CASE v.t = "str" -> {v}
    [] v.t \in {"list", "tuple"} -> UNION {StrsOf(v.e[i]) : i \in 1..Len(v.e)}
    [] v.t = "dict" -> UNION {StrsOf(v.items[i][1]) \cup StrsOf(v.items[i][2]) :
                               i \in 1..Len(v.items)}
    [] OTHER -> {}

ValuesOf(mapping) == UNION {StrsOf(mapping[k]) : k \in DOMAIN mapping}
Range(q) == {q[i] : i \in 1..Len(q)}

\* C10: the mapping and the bare-tag list handed to the store for one class
\* are a function of that class's raw argument alone; a bare tag supplied
\* for one class only (remove, say) never appears in another class's mapping
\* or tag list.
C10_CrossClassIsolation ==
  LET n == [c \in Classes |-> _parse_argspec(raw[c])]
      canon == [c \in Classes |->
                  IF c = "reset" THEN n[c].mapping
                  ELSE MergeTag(n[c].tags, n[c].mapping).mapping]
  IN /\ Merged =>
          \A c \in Classes :
            /\ loc[c] = canon[c]
            /\ loc[TagName(c)] = n[c].tags
            /\ \A t \in Range(n[c].tags) : \A c2 \in Classes \ {c} :
                 t \notin StrsOf(raw[c2]) =>
                   t \notin ValuesOf(loc[c2]) /\ t \notin Range(loc[TagName(c2)])
     /\ \A i \in CallIdx("set") :
          /\ \A c \in Classes : calls[i][c] = canon[c]
          /\ calls[i].purge = n["reset"].tags

\* a bare tag given to remove only, with tags of their own in add and init
C10_Witness ==
  \E i \in CallIdx("set") :
    /\ raw.remove = L_tag_y
    /\ raw.add = L_x
    /\ raw.init = L_x
    /\ raw.reset = L_x
    /\ PyStr(S_y) \in ValuesOf(calls[i].remove)
    /\ PyStr(S_y) \notin ValuesOf(calls[i].add)
====
